---- MODULE Spec2Model ----
(***************************************************************************)
(* Approval Rationale Tracker: the cockpit state reducer, the staleness    *)
(* calculator, the demo data, the localStorage persistence of the          *)
(* LoanCockpitProvider and the import handler of the LoanCockpit screen.   *)
(*                                                                         *)
(* Dates are JavaScript Date values, held here as an integer count of      *)
(* time units since the Unix epoch.  One time unit is TimeUnit             *)
(* milliseconds (an hour) instead of one millisecond, because 91 days of   *)
(* milliseconds do not fit the 32-bit integers of the model checker; all   *)
(* arithmetic on dates is the source's arithmetic on getTime().            *)
(***************************************************************************)
EXTENDS Integers, Sequences, FiniteSets, TLC

-----------------------------------------------------------------------------
(* Bounds of the model *)

\* milliseconds per model time unit
TimeUnit == 3600000
\* the clock runs from ClockStart to ClockStart + MaxElapsedDays days
MaxElapsedDays == 46
\* longest pendingRationales list
MaxPending == 2
\* longest rationales list
MaxRationales == 2
\* most imports whose extraction is outstanding at once
MaxInflight == 1
\* most imports begun on one page, where each import is told from the others
MaxImports == 2
\* largest whole-day distance between the two dates given to calculateStatus
MaxCalcDays == 92
\* longest pending list handed to rejectPendingRationale
MaxRejectList == 3

\* getDaysSinceReview is evaluated for dates at most this many days apart,
\* either way round
MaxDaysApart == 3

\* longest rationale list handed to generateReviewSummary
MaxSummaryList == 3

\* calculateApprovalLogicAge is evaluated for dates of this many years
MaxAgeYears == 2

-----------------------------------------------------------------------------
(* Date: the calendar conversions behind new Date(string) and toISOString *)

msPerDay == (24 * 60 * 60 * 1000) \div TimeUnit

\* days since 1970-01-01 of the civil date y-m-d (proleptic Gregorian, UTC)
DaysFromCivil(y, m, d) ==
    LET yy  == IF m <= 2 THEN y - 1 ELSE y
        era == yy \div 400
        yoe == yy - era * 400
        mp  == IF m > 2 THEN m - 3 ELSE m + 9
        doy == (153 * mp + 2) \div 5 + d - 1
        doe == yoe * 365 + yoe \div 4 - yoe \div 100 + doy
    IN  era * 146097 + doe - 719468

\* the civil date of a day number, computed
CivilOfDay(z0) ==
    LET z   == z0 + 719468
        era == z \div 146097
        doe == z - era * 146097
        yoe == (doe - doe \div 1460 + doe \div 36524 - doe \div 146096) \div 365
        doy == doe - (365 * yoe + yoe \div 4 - yoe \div 100)
        mp  == (5 * doy + 2) \div 153
        d   == doy - (153 * mp + 2) \div 5 + 1
        m   == IF mp < 10 THEN mp + 3 ELSE mp - 9
        y   == yoe + era * 400 + (IF m <= 2 THEN 1 ELSE 0)
    IN  [year |-> y, month |-> m, day |-> d]

\* the civil dates of the years the dates of this module lie in, tabulated
CivilTableDays == DaysFromCivil(2023, 1, 1)..DaysFromCivil(2025, 12, 31)

CivilTable == [z \in CivilTableDays |-> CivilOfDay(z)]

\* the civil date of a day number: read from the table where it has the day
CivilFromDays(z0) ==
    IF z0 \in CivilTableDays THEN CivilTable[z0] ELSE CivilOfDay(z0)

\* new Date('YYYY-MM-DD'): midnight UTC of that day
DateOf(y, m, d) == DaysFromCivil(y, m, d) * msPerDay

\* toISOString cut to its date part (YYYY-MM-DD)
toISOStringDateOnly(t) ==
    LET c == CivilFromDays(t \div msPerDay)
    IN  [year |-> c.year, month |-> c.month, day |-> c.day, time |-> 0]

\* Date.prototype.toISOString: the text YYYY-MM-DDTHH:mm:ss.sssZ, held as its
\* date fields and its time-of-day part
toISOString(t) ==
    LET c == CivilFromDays(t \div msPerDay)
    IN  [year |-> c.year, month |-> c.month, day |-> c.day, time |-> t % msPerDay]

\* new Date(isoText)
parseDate(iso) == DaysFromCivil(iso.year, iso.month, iso.day) * msPerDay + iso.time

-----------------------------------------------------------------------------
(* Text: String.prototype.substring and trim, and the lengths in play *)

\* the cut mockExtractRationales applies to a description
DESCRIPTION_CUT == 350

\* the lengths the Rationale type documents for title and description
MAX_TITLE_LENGTH == 100
MAX_DESCRIPTION_LENGTH == 250

\* text.substring(from, to), 0-based, to exclusive and clamped to the length
substring(text, from, to) ==
    SubSeq(text, from + 1, IF to < Len(text) THEN to ELSE Len(text))

trimEnd(text) ==
    LET kept == { k \in 1..Len(text) : SubSeq(text, k, k) # " " }
    IN  IF kept = {} THEN ""
        ELSE SubSeq(text, 1, CHOOSE k \in kept : \A j \in kept : j <= k)

trimStart(text) ==
    LET kept == { k \in 1..Len(text) : SubSeq(text, k, k) # " " }
    IN  IF kept = {} THEN ""
        ELSE SubSeq(text, CHOOSE k \in kept : \A j \in kept : k <= j, Len(text))

trim(text) == trimStart(trimEnd(text))

-----------------------------------------------------------------------------
(* StalenessCalculator *)

FRESH_THRESHOLD_DAYS == 30
REVIEW_DUE_THRESHOLD_DAYS == 90

getDaysSinceReview(lastReviewedDate, currentDate) ==
    LET diffMs == currentDate - lastReviewedDate
    IN  diffMs \div msPerDay

\* calculateStatus with the Fresh threshold exclusive
calculateStatusExclusive(lastReviewedDate, currentDate) ==
    LET daysSinceReview == getDaysSinceReview(lastReviewedDate, currentDate)
    IN  IF daysSinceReview < FRESH_THRESHOLD_DAYS THEN "Fresh"
        ELSE IF daysSinceReview <= REVIEW_DUE_THRESHOLD_DAYS THEN "Review Due"
        ELSE "Stale"

calculateStatus(lastReviewedDate, currentDate) ==
    LET daysSinceReview == getDaysSinceReview(lastReviewedDate, currentDate)
    IN  IF daysSinceReview <= FRESH_THRESHOLD_DAYS THEN "Fresh"
        ELSE IF daysSinceReview <= REVIEW_DUE_THRESHOLD_DAYS THEN "Review Due"
        ELSE "Stale"

-----------------------------------------------------------------------------
(* Demo data *)

createDemoLoan ==
    [id |-> "CML-2024-00847",
     approvalDate |-> DateOf(2024, 3, 15),
     borrowerReference |-> "REF-ACME-2024"]

createContextualSignals(t) ==
    [revenue |->
        << [id |-> "sig-001",
            description |-> "Industry revenue data updated 2 weeks ago",
            updatedAt |-> t - 14 * msPerDay] >>,
     collateral |->
        << [id |-> "sig-002",
            description |-> "Regional property index updated 6 weeks ago",
            updatedAt |-> t - 42 * msPerDay] >>,
     management |->
        << [id |-> "sig-003",
            description |-> "Executive team composition unchanged",
            updatedAt |-> t - 30 * msPerDay],
           [id |-> "sig-004",
            description |-> "Industry leadership benchmark updated 4 months ago",
            updatedAt |-> t - 120 * msPerDay] >>]

createDemoRationales(t) ==
    LET signals == createContextualSignals(t)
        freshReviewDate == t - 15 * msPerDay
        reviewDueDate == t - 45 * msPerDay
        staleReviewDate == t - 120 * msPerDay
        createdAt == DateOf(2024, 3, 15)
    IN  << [id |-> "rat-001",
            title |-> "Revenue Stability Assessment",
            description |-> "Borrower demonstrated 3 consecutive years of stable revenue growth with diversified customer base.",
            createdAt |-> createdAt,
            lastReviewedAt |-> freshReviewDate,
            status |-> calculateStatus(freshReviewDate, t),
            contextualSignals |-> signals.revenue],
           [id |-> "rat-002",
            title |-> "Collateral Valuation Basis",
            description |-> "Property valuation based on Q1 2024 appraisal with 15% haircut applied per policy.",
            createdAt |-> createdAt,
            lastReviewedAt |-> reviewDueDate,
            status |-> calculateStatus(reviewDueDate, t),
            contextualSignals |-> signals.collateral],
           [id |-> "rat-003",
            title |-> "Management Experience Consideration",
            description |-> "CEO has 20+ years industry experience; CFO previously at Fortune 500 company.",
            createdAt |-> createdAt,
            lastReviewedAt |-> staleReviewDate,
            status |-> calculateStatus(staleReviewDate, t),
            contextualSignals |-> signals.management] >>

loadDemoData(t) == [loan |-> createDemoLoan, rationales |-> createDemoRationales(t)]

-----------------------------------------------------------------------------
(* Sequence helpers: Array.prototype.map and Array.prototype.filter *)

Map(f(_), s) == [i \in 1..Len(s) |-> f(s[i])]

Filter(keep(_), s) == SelectSeq(s, keep)

-----------------------------------------------------------------------------
(* CockpitStateReducer: loanCockpitReducer, one operator per case.  `t' is  *)
(* the value of new Date() inside the case.                                *)

\* the JavaScript null of state.loan
Null == [null |-> TRUE]

initialState ==
    [loan |-> Null,
     rationales |-> << >>,
     pendingRationales |-> << >>,
     isExtracting |-> FALSE,
     showConfirmation |-> FALSE,
     dataSource |-> "none"]

\* LOAD_DEMO_DATA that leaves the pending rationales and their panel alone
ReduceLoadDemoDataKeepingPending(s, t) ==
    LET demoData == loadDemoData(t)
    IN  [s EXCEPT !.loan = demoData.loan,
                  !.rationales = demoData.rationales,
                  !.dataSource = "demo"]

ReduceLoadDemoData(s, t) ==
    LET demoData == loadDemoData(t)
    IN  [s EXCEPT !.loan = demoData.loan,
                  !.rationales = demoData.rationales,
                  !.pendingRationales = << >>,
                  !.showConfirmation = FALSE,
                  !.dataSource = "demo"]

\* START_EXTRACTION that keeps the rationales confirmed before
ReduceStartExtractionKeeping(s, payload) ==
    [s EXCEPT !.loan = payload.loan,
              !.pendingRationales = payload.pendingRationales,
              !.showConfirmation = Len(payload.pendingRationales) > 0,
              !.isExtracting = FALSE,
              !.dataSource = "extracted"]

ReduceStartExtraction(s, payload) ==
    [s EXCEPT !.loan = payload.loan,
              !.rationales = << >>,
              !.pendingRationales = payload.pendingRationales,
              !.showConfirmation = Len(payload.pendingRationales) > 0,
              !.isExtracting = FALSE,
              !.dataSource = "extracted"]

\* SET_EXTRACTION_ERROR that only leaves extraction mode
ReduceSetExtractionErrorKeeping(s) ==
    [s EXCEPT !.isExtracting = FALSE]

ReduceSetExtractionError(s) ==
    [initialState EXCEPT !.isExtracting = FALSE]

ReduceAddPendingRationales(s, payload) ==
    [s EXCEPT !.pendingRationales = s.pendingRationales \o payload,
              !.showConfirmation = Len(payload) > 0]

\* a Rationale literal dated by the extraction instead of the confirmation
NewRationaleDatedByExtraction(pending, t) ==
    [id |-> pending.id,
     title |-> pending.title,
     description |-> pending.description,
     createdAt |-> pending.extractedAt,
     lastReviewedAt |-> pending.extractedAt,
     status |-> calculateStatus(pending.extractedAt, t),
     contextualSignals |-> << >>]

\* the Rationale literal built by CONFIRM_RATIONALE and CONFIRM_ALL_RATIONALES
NewRationale(pending, t) ==
    [id |-> pending.id,
     title |-> pending.title,
     description |-> pending.description,
     createdAt |-> t,
     lastReviewedAt |-> t,
     status |-> calculateStatus(t, t),
     contextualSignals |-> << >>]

\* CONFIRM_RATIONALE that counts the pending rationales left after the removal
ReduceConfirmRationaleCountingRest(s, pending, t) ==
    LET newRationale == NewRationale(pending, t)
        rest == Filter(LAMBDA p : p.id # pending.id, s.pendingRationales)
    IN  [s EXCEPT !.rationales = Append(s.rationales, newRationale),
                  !.pendingRationales = rest,
                  !.showConfirmation = Len(rest) > 1]

ReduceConfirmRationale(s, pending, t) ==
    LET newRationale == NewRationale(pending, t)
    IN  [s EXCEPT !.rationales = Append(s.rationales, newRationale),
                  !.pendingRationales =
                      Filter(LAMBDA p : p.id # pending.id, s.pendingRationales),
                  !.showConfirmation = Len(s.pendingRationales) > 1]

ReduceRejectRationale(s, id) ==
    [s EXCEPT !.pendingRationales =
                  Filter(LAMBDA p : p.id # id, s.pendingRationales),
              !.showConfirmation = Len(s.pendingRationales) > 1]

\* CONFIRM_ALL_RATIONALES that puts the new rationales in front
ReduceConfirmAllRationalesInFront(s, t) ==
    LET newRationales == Map(LAMBDA pending : NewRationale(pending, t),
                             s.pendingRationales)
    IN  [s EXCEPT !.rationales = newRationales \o s.rationales,
                  !.pendingRationales = << >>,
                  !.showConfirmation = FALSE]

ReduceConfirmAllRationales(s, t) ==
    LET newRationales == Map(LAMBDA pending : NewRationale(pending, t),
                             s.pendingRationales)
    IN  [s EXCEPT !.rationales = s.rationales \o newRationales,
                  !.pendingRationales = << >>,
                  !.showConfirmation = FALSE]

\* MARK_REVIEWED that stamps every rationale, whatever its id
ReduceMarkReviewedAll(s, id, t) ==
    [s EXCEPT !.rationales =
        Map(LAMBDA r : [r EXCEPT !.lastReviewedAt = t,
                                 !.status = calculateStatus(t, t)],
            s.rationales)]

ReduceMarkReviewed(s, id, t) ==
    [s EXCEPT !.rationales =
        Map(LAMBDA r : IF r.id = id
                       THEN [r EXCEPT !.lastReviewedAt = t,
                                      !.status = calculateStatus(t, t)]
                       ELSE r,
            s.rationales)]

ReduceSetExtracting(s, payload) == [s EXCEPT !.isExtracting = payload]

ReduceSetShowConfirmation(s, payload) == [s EXCEPT !.showConfirmation = payload]

ReduceClearState(s) == initialState

ReduceRestoreState(s, payload) == payload

\* an action is [type, payload]; t is the wall clock when it is reduced
loanCockpitReducer(s, action, t) ==
    CASE action.type = "LOAD_DEMO_DATA" -> ReduceLoadDemoData(s, t)
      [] action.type = "START_EXTRACTION" -> ReduceStartExtraction(s, action.payload)
      [] action.type = "SET_EXTRACTION_ERROR" -> ReduceSetExtractionError(s)
      [] action.type = "ADD_PENDING_RATIONALES" ->
             ReduceAddPendingRationales(s, action.payload)
      [] action.type = "CONFIRM_RATIONALE" ->
             ReduceConfirmRationale(s, action.payload, t)
      [] action.type = "REJECT_RATIONALE" -> ReduceRejectRationale(s, action.payload)
      [] action.type = "CONFIRM_ALL_RATIONALES" -> ReduceConfirmAllRationales(s, t)
      [] action.type = "MARK_REVIEWED" -> ReduceMarkReviewed(s, action.payload, t)
      [] action.type = "SET_EXTRACTING" -> ReduceSetExtracting(s, action.payload)
      [] action.type = "SET_SHOW_CONFIRMATION" ->
             ReduceSetShowConfirmation(s, action.payload)
      [] action.type = "CLEAR_STATE" -> ReduceClearState(s)
      [] action.type = "RESTORE_STATE" -> ReduceRestoreState(s, action.payload)
      [] OTHER -> s

-----------------------------------------------------------------------------
(* Confirmation and review services *)

confirmPendingRationale(pending, confirmTime) ==
    [id |-> pending.id,
     title |-> pending.title,
     description |-> pending.description,
     createdAt |-> confirmTime,
     lastReviewedAt |-> confirmTime,
     status |-> calculateStatus(confirmTime, confirmTime),
     contextualSignals |-> << >>]

\* a rejection that keeps the rejected rationale and drops the others
rejectPendingRationaleInverted(pendingList, rationaleId) ==
    Filter(LAMBDA p : p.id = rationaleId, pendingList)

rejectPendingRationale(pendingList, rationaleId) ==
    Filter(LAMBDA p : p.id # rationaleId, pendingList)

\* a review that stamps the date and keeps the status it found
markRationaleAsReviewedKeepingStatus(rationale, reviewTime) ==
    [rationale EXCEPT !.lastReviewedAt = reviewTime]

markRationaleAsReviewed(rationale, reviewTime) ==
    [rationale EXCEPT !.lastReviewedAt = reviewTime,
                      !.status = calculateStatus(reviewTime, reviewTime)]

confirmAllPendingRationales(pendingList, confirmTime) ==
    Map(LAMBDA pending : confirmPendingRationale(pending, confirmTime), pendingList)

-----------------------------------------------------------------------------
(* ReviewSummary: generateReviewSummary.  The text is held as its parts: the *)
(* loan id, the formatted date, and either the all-current sentence or the   *)
(* listed items with their total.                                            *)

\* a filter that lets only the Stale rationales through
NeedsReviewStaleOnly(r) == r.status = "Stale"

NeedsReview(r) == r.status = "Review Due" \/ r.status = "Stale"

\* [...items].sort((a, b) => b.daysSinceReview - a.daysSinceReview): stable,
\* most days first
RECURSIVE SortMostStaleFirst(_)
SortMostStaleFirst(items) ==
    IF items = << >> THEN << >>
    ELSE LET n == Len(items)
             sorted == SortMostStaleFirst(SubSeq(items, 1, n - 1))
             item == items[n]
             ahead == { k \in 1..Len(sorted) :
                          sorted[k].daysSinceReview >= item.daysSinceReview }
             at == IF ahead = {} THEN 0
                   ELSE CHOOSE k \in ahead : \A j \in ahead : j <= k
         IN  SubSeq(sorted, 1, at) \o << item >> \o SubSeq(sorted, at + 1, Len(sorted))

\* toLocaleDateString('en-US', long month), for a browser in the UTC zone
formatDate(date) == CivilFromDays(date \div msPerDay)

generateSummaryText(loanId, rationalesNeedingReview, generatedAt) ==
    [loanId |-> loanId,
     generated |-> formatDate(generatedAt),
     allCurrent |-> Len(rationalesNeedingReview) = 0,
     items |-> SortMostStaleFirst(rationalesNeedingReview),
     total |-> Len(rationalesNeedingReview)]

\* a summary that lists every rationale, whatever its status
generateReviewSummaryOfAll(rationales, loanId, currentDate) ==
    LET rationalesNeedingReview ==
            Map(LAMBDA r : [title |-> r.title,
                            status |-> r.status,
                            daysSinceReview |->
                                getDaysSinceReview(r.lastReviewedAt, currentDate)],
                rationales)
    IN  [generatedAt |-> currentDate,
         loanId |-> loanId,
         rationalesNeedingReview |-> rationalesNeedingReview,
         summaryText |-> generateSummaryText(loanId, rationalesNeedingReview,
                                             currentDate)]

generateReviewSummary(rationales, loanId, currentDate) ==
    LET needingReview == Filter(NeedsReview, rationales)
        rationalesNeedingReview ==
            Map(LAMBDA r : [title |-> r.title,
                            status |-> r.status,
                            daysSinceReview |->
                                getDaysSinceReview(r.lastReviewedAt, currentDate)],
                needingReview)
    IN  [generatedAt |-> currentDate,
         loanId |-> loanId,
         rationalesNeedingReview |-> rationalesNeedingReview,
         summaryText |-> generateSummaryText(loanId, rationalesNeedingReview,
                                             currentDate)]

-----------------------------------------------------------------------------
(* Approval logic age: whole months from the approval date to the current  *)
(* date, read off the calendar fields of both (a browser in the UTC zone). *)

\* the age by year and month alone, the day of the month ignored
calculateApprovalLogicAgeByMonth(approvalDate, currentDate) ==
    LET approval == CivilFromDays(approvalDate \div msPerDay)
        current == CivilFromDays(currentDate \div msPerDay)
        months == (current.year - approval.year) * 12
                     + (current.month - approval.month)
    IN  IF months > 0 THEN months ELSE 0

calculateApprovalLogicAge(approvalDate, currentDate) ==
    LET approval == CivilFromDays(approvalDate \div msPerDay)
        current == CivilFromDays(currentDate \div msPerDay)
        total == (current.year - approval.year) * 12
                    + (current.month - approval.month)
        months == IF current.day < approval.day THEN total - 1 ELSE total
    IN  IF months > 0 THEN months ELSE 0

-----------------------------------------------------------------------------
(* Persistence: serializeState and deserializeState.  A stored item is a    *)
(* record [kind, value]: kind "json" holds the object JSON.stringify wrote, *)
(* kind "syntax" is text JSON.parse rejects, kind "shape" is JSON without   *)
(* the rationales array, kind "none" is the absent key (getItem = null).    *)

NoItem == [kind |-> "none"]

serializeSignal(sig) == [sig EXCEPT !.updatedAt = toISOString(sig.updatedAt)]

serializeRationale(r) ==
    [r EXCEPT !.createdAt = toISOString(r.createdAt),
              !.lastReviewedAt = toISOString(r.lastReviewedAt),
              !.contextualSignals = Map(serializeSignal, r.contextualSignals)]

serializePending(p) == [p EXCEPT !.extractedAt = toISOString(p.extractedAt)]

serializeState(s) ==
    [kind |-> "json",
     value |->
        [s EXCEPT !.loan = IF s.loan # Null
                           THEN [s.loan EXCEPT !.approvalDate =
                                     toISOString(s.loan.approvalDate)]
                           ELSE Null,
                  !.rationales = Map(serializeRationale, s.rationales),
                  !.pendingRationales = Map(serializePending, s.pendingRationales),
                  !.dataSource = s.dataSource]]

deserializeSignal(sig) == [sig EXCEPT !.updatedAt = parseDate(sig.updatedAt)]

deserializeRationale(r) ==
    [r EXCEPT !.createdAt = parseDate(r.createdAt),
              !.lastReviewedAt = parseDate(r.lastReviewedAt),
              !.contextualSignals = Map(deserializeSignal, r.contextualSignals)]

deserializePending(p) == [p EXCEPT !.extractedAt = parseDate(p.extractedAt)]

\* deserializeState throws on text that is not JSON and on JSON whose
\* rationales or pendingRationales cannot be mapped
deserializeThrows(json) == json.kind # "json"

deserializeState(json) ==
    LET parsed == json.value
    IN  [parsed EXCEPT !.loan = IF parsed.loan # Null
                                THEN [parsed.loan EXCEPT !.approvalDate =
                                          parseDate(parsed.loan.approvalDate)]
                                ELSE Null,
                       !.rationales = Map(deserializeRationale, parsed.rationales),
                       !.pendingRationales =
                           Map(deserializePending, parsed.pendingRationales),
                       !.dataSource = IF parsed.dataSource # ""
                                      THEN parsed.dataSource ELSE "none"]

-----------------------------------------------------------------------------
(* The running application: LoanCockpitProvider, its two effects, and the  *)
(* handlers of the LoanCockpit screen.  React runs the effects of a render *)
(* before it handles the next event, so each action below is a handler     *)
(* together with the persist effect of the render it causes.               *)

VARIABLES
    state,                \* the LoanCockpitState held by useReducer
    stateIsInitialObject, \* state is the module's initialState object itself
    storageError,         \* the provider's storageError
    isInitialized,        \* the provider's isInitialized
    store,                \* localStorage[STORAGE_KEY]
    storeAcceptsWrites,   \* localStorage.setItem succeeds (no quota error)
    extractionErrorMsg,   \* the LoanCockpit component's extractionErrorMsg
    inflight,             \* handleFileImport calls awaiting extractTextFromPdf
    now,                  \* the wall clock, new Date()
    call,                 \* arguments of a pure function under evaluation
    ret,                  \* its result
    editingState,         \* the ConfirmationModal's editingState
    editingId,            \* the ConfirmationModal's editingId
    onEditUpdates,        \* what the modal last passed to onEdit, by id
    imports,              \* the calls of handleFileImport of this page, in the
                          \* order they began: the file, and whether its
                          \* extraction is still awaited
    mountStep             \* how far the effects of the provider's first render
                          \* have run, where the mount is followed effect by
                          \* effect: "none" of the effects of the first
                          \* render has run (or the mount is over), the
                          \* restore effect has ("restored"), "both" have

vars == << state, stateIsInitialObject, storageError, isInitialized,
           store, storeAcceptsWrites, extractionErrorMsg, inflight, now,
           call, ret, editingState, editingId, onEditUpdates, imports,
           mountStep >>

\* the local state of the ConfirmationModal and what it handed to onEdit
modal == << editingState, editingId, onEditUpdates >>

CorruptedMessage == "Previous session data was corrupted. Starting fresh."
NotPersistedMessage == "Data will not persist after page refresh"
NoError == "null"

NoTextMessage == "Unable to extract text from this document"
NoRationalesMessage == "No approval rationales could be identified in this document."

NoCall == [fn |-> "none"]

ClockStart == DateOf(2024, 8, 1) + msPerDay \div 2
ClockEnd == ClockStart + MaxElapsedDays * msPerDay
TickSteps == { 46 * msPerDay }

\* the pending rationales an extraction can emit, by id
ExtractIds == { "rat-x1", "rat-x2" }

ExtractTitle(id) ==
    IF id = "rat-x1" THEN "Cash Flow Predictability" ELSE "Asset Coverage / Collateral"

\* the content of the document's section behind each id: a short one, and one
\* longer than the cut, whose last character before the cut is a space
ShortSectionContent == "Contracted cash flows cover debt service by a wide margin."

SectionSentence == "Collateral is appraised at one and a half times the committed amount. "

LongSectionContent ==
    SectionSentence \o SectionSentence \o SectionSentence \o SectionSentence
        \o SectionSentence \o "The appraisal is refreshed every year."

\* sectionContent.substring(0, 350).trim() + (length > 350 ? '...' : '')
DescriptionOf(sectionContent) ==
    trim(substring(sectionContent, 0, DESCRIPTION_CUT))
        \o (IF Len(sectionContent) > DESCRIPTION_CUT THEN "..." ELSE "")

ShortDescription == DescriptionOf(ShortSectionContent)

LongDescription == DescriptionOf(LongSectionContent)

ExtractDescription(id) ==
    IF id = "rat-x1" THEN ShortDescription ELSE LongDescription

\* sourceText: the section content
ExtractText(id) ==
    IF id = "rat-x1" THEN ShortSectionContent ELSE LongSectionContent

MkPending(id, t) ==
    [id |-> id,
     title |-> ExtractTitle(id),
     description |-> ExtractDescription(id),
     extractedAt |-> t,
     sourceText |-> ExtractText(id)]

\* sequences of pairwise distinct ids (generateId never repeats one)
ExtractIdLists ==
    { l \in UNION { [1..n -> ExtractIds] : n \in 0..MaxPending } :
        \A i, j \in 1..Len(l) : i # j => l[i] # l[j] }

\* sequences of at most maxLen pending rationales, extracted at t
PendingLists(t, maxLen) ==
    { Map(LAMBDA id : MkPending(id, t), ids) :
        ids \in { l \in ExtractIdLists : Len(l) <= maxLen } }

\* the LoanInfo handleFileImport builds from the document's metadata
ExtractedLoans(t) ==
    { [id |-> "LOAN-ACME", approvalDate |-> DateOf(2023, 7, 8),
       borrowerReference |-> "Acme Corp"] }

Ids(s) == { s[i].id : i \in 1..Len(s) }

\* useState<EditingState>({}) and useState<string | null>(null)
NoEdits == [kind |-> "none"]
NoEditing == [id \in ExtractIds |-> NoEdits]
NoEditingId == "null"

Elems(s) == { s[i] : i \in 1..Len(s) }

Init ==
    /\ state = initialState
    /\ stateIsInitialObject = TRUE
    /\ storageError = NoError
    /\ isInitialized = FALSE
    /\ store \in { NoItem, [kind |-> "syntax"], [kind |-> "shape"] }
    /\ storeAcceptsWrites \in BOOLEAN
    /\ extractionErrorMsg = NoError
    /\ inflight = 0
    /\ now = ClockStart
    /\ call = NoCall
    /\ ret = NoCall
    /\ editingState = NoEditing
    /\ editingId = NoEditingId
    /\ onEditUpdates = NoEditing
    /\ imports = << >>
    /\ mountStep = "none"

\* a persist effect that does not depend on state: it never runs again
PersistNever(rendered, newState, item, error) ==
    /\ store' = item
    /\ storageError' = error

\* Persist state to localStorage on changes (the second effect), run for a
\* render that changed state or isInitialized; `item' and `error' are the
\* stored item and storageError that the handler left behind
Persist(rendered, newState, item, error) ==
    IF rendered
    THEN IF storeAcceptsWrites
         THEN /\ store' = serializeState(newState)
              /\ storageError' = NoError
         ELSE /\ store' = item
              /\ storageError' = NotPersistedMessage
    ELSE /\ store' = item
         /\ storageError' = error

\* the persist effect depends on [state, isInitialized]: it runs again unless
\* the reducer returned the very object it was given
Rerenders(action) == ~(action.type = "CLEAR_STATE" /\ stateIsInitialObject)

\* dispatch(action)
Dispatch(action) ==
    /\ state' = loanCockpitReducer(state, action, now)
    /\ stateIsInitialObject' = (action.type = "CLEAR_STATE")

DispatchAndPersist(action) ==
    /\ Dispatch(action)
    /\ Persist(Rerenders(action), loanCockpitReducer(state, action, now),
               store, storageError)

\* Load state from localStorage on mount (the first effect); the persist
\* effect of the first render returns at once because that render saw
\* isInitialized = false, and runs again once isInitialized is true
Mount ==
    /\ ~isInitialized
    /\ isInitialized' = TRUE
    /\ IF store = NoItem
       THEN /\ UNCHANGED << state, stateIsInitialObject >>
            /\ Persist(TRUE, state, store, storageError)
       ELSE IF ~deserializeThrows(store)
       THEN /\ Dispatch([type |-> "RESTORE_STATE",
                         payload |-> deserializeState(store)])
            /\ Persist(TRUE, deserializeState(store), store, storageError)
       ELSE /\ UNCHANGED << state, stateIsInitialObject >>
            /\ Persist(TRUE, state, NoItem, CorruptedMessage)
    /\ UNCHANGED << storeAcceptsWrites, extractionErrorMsg, inflight, now,
                    call, ret >>
    /\ UNCHANGED << modal, imports, mountStep >>

\* the user reloads the page: a new provider is constructed, promises of the
\* old page are gone, localStorage stays
Reload ==
    /\ isInitialized
    /\ state' = initialState
    /\ stateIsInitialObject' = TRUE
    /\ storageError' = NoError
    /\ isInitialized' = FALSE
    /\ extractionErrorMsg' = NoError
    /\ inflight' = 0
    /\ editingState' = NoEditing
    /\ editingId' = NoEditingId
    /\ onEditUpdates' = NoEditing
    /\ imports' = << >>
    /\ mountStep' = "none"
    /\ UNCHANGED << store, storeAcceptsWrites, now, call, ret >>

\* time passes
Tick ==
    /\ \E step \in TickSteps :
          /\ now + step <= ClockEnd
          /\ now' = now + step
    /\ UNCHANGED << state, stateIsInitialObject, storageError, isInitialized,
                    store, storeAcceptsWrites, extractionErrorMsg, inflight,
                    call, ret >>
    /\ UNCHANGED << modal, imports, mountStep >>

Frame ==
    /\ UNCHANGED << isInitialized, storeAcceptsWrites, now, call, ret >>
    /\ UNCHANGED << modal, imports, mountStep >>

\* a helper of the context value: nothing but the dispatch
Helper(action) ==
    /\ isInitialized
    /\ DispatchAndPersist(action)
    /\ UNCHANGED << extractionErrorMsg, inflight >>
    /\ Frame

\* handleLoadDemoData
LoadDemo ==
    /\ isInitialized
    /\ extractionErrorMsg' = NoError
    /\ DispatchAndPersist([type |-> "LOAD_DEMO_DATA", payload |-> Null])
    /\ UNCHANGED inflight
    /\ Frame

\* handleFileImport up to its await: setExtracting(true)
ImportStart ==
    /\ isInitialized
    /\ inflight < MaxInflight
    /\ DispatchAndPersist([type |-> "SET_EXTRACTING", payload |-> TRUE])
    /\ extractionErrorMsg' = NoError
    /\ inflight' = inflight + 1
    /\ Frame

StartExtractionAction(loan, rationales) ==
    [type |-> "START_EXTRACTION",
     payload |-> [loan |-> loan, pendingRationales |-> rationales]]

\* handleFileImport after its await, text and rationales extracted:
\* startExtraction(extractedLoan, rationales)
ImportSucceed ==
    /\ isInitialized
    /\ inflight > 0
    /\ \E loan \in ExtractedLoans(now) :
       \E rationales \in PendingLists(now, MaxPending) :
          /\ Len(rationales) # 0
          /\ DispatchAndPersist(StartExtractionAction(loan, rationales))
    /\ inflight' = inflight - 1
    /\ UNCHANGED extractionErrorMsg
    /\ Frame

\* handleFileImport after its await, on its failure paths: no text or an
\* exception (one message), no rationales (another); each ends in
\* setExtractionError()
ImportFail ==
    /\ isInitialized
    /\ inflight > 0
    /\ \E msg \in { NoTextMessage, NoRationalesMessage } :
          extractionErrorMsg' = msg
    /\ DispatchAndPersist([type |-> "SET_EXTRACTION_ERROR", payload |-> Null])
    /\ inflight' = inflight - 1
    /\ Frame

\* the context's startExtraction helper
StartExtractionOf(loan, rationales) ==
    Helper(StartExtractionAction(loan, rationales))

StartExtraction ==
    \E loan \in ExtractedLoans(now) :
    \E rationales \in PendingLists(now, MaxPending) :
       StartExtractionOf(loan, rationales)

\* the context's setExtractionError helper
SetExtractionError ==
    Helper([type |-> "SET_EXTRACTION_ERROR", payload |-> Null])

\* the context's addPendingRationales helper
AddPendingRationales ==
    \E rationales \in PendingLists(now, MaxPending) :
       /\ Len(state.pendingRationales) + Len(rationales) <= MaxPending
       /\ Helper([type |-> "ADD_PENDING_RATIONALES", payload |-> rationales])

\* the context's confirmRationale helper, given a pending rationale of the
\* list or one that is no longer in it
ConfirmPayloads ==
    Elems(state.pendingRationales) \cup { MkPending(id, now) : id \in ExtractIds }

ConfirmRationaleOf(pending) ==
    /\ Len(state.rationales) < MaxRationales
    /\ Helper([type |-> "CONFIRM_RATIONALE", payload |-> pending])

ConfirmRationale == \E pending \in ConfirmPayloads : ConfirmRationaleOf(pending)

\* the context's rejectRationale helper
RejectRationaleOf(id) == Helper([type |-> "REJECT_RATIONALE", payload |-> id])

RejectRationale == \E id \in ExtractIds : RejectRationaleOf(id)

\* the context's confirmAllRationales helper
ConfirmAllRationales ==
    /\ Len(state.rationales) + Len(state.pendingRationales) <= MaxRationales
    /\ Helper([type |-> "CONFIRM_ALL_RATIONALES", payload |-> Null])

\* the context's markReviewed helper
MarkReviewed ==
    \E id \in Ids(state.rationales) \cup ExtractIds :
       Helper([type |-> "MARK_REVIEWED", payload |-> id])

\* the context's setExtracting helper
SetExtracting ==
    \E b \in BOOLEAN : Helper([type |-> "SET_EXTRACTING", payload |-> b])

\* the context's setShowConfirmation helper (the modal's onClose passes false)
SetShowConfirmation ==
    \E b \in BOOLEAN : Helper([type |-> "SET_SHOW_CONFIRMATION", payload |-> b])

\* the context's clearState helper: dispatch CLEAR_STATE, then removeItem;
\* the persist effect of the re-render, when there is one, runs after both
ClearState ==
    /\ isInitialized
    /\ Dispatch([type |-> "CLEAR_STATE", payload |-> Null])
    /\ Persist(Rerenders([type |-> "CLEAR_STATE", payload |-> Null]),
               loanCockpitReducer(state, [type |-> "CLEAR_STATE", payload |-> Null], now),
               NoItem, storageError)
    /\ UNCHANGED << extractionErrorMsg, inflight >>
    /\ Frame

Next ==
    \/ Mount
    \/ Reload
    \/ Tick
    \/ LoadDemo
    \/ ImportStart
    \/ ImportSucceed
    \/ ImportFail
    \/ StartExtraction
    \/ SetExtractionError
    \/ AddPendingRationales
    \/ ConfirmRationale
    \/ RejectRationale
    \/ ConfirmAllRationales
    \/ MarkReviewed
    \/ SetExtracting
    \/ SetShowConfirmation
    \/ ClearState

Spec == Init /\ [][Next]_vars

-----------------------------------------------------------------------------
(* RationaleExtractor: mockExtractRationales over texts of letters, digits, *)
(* punctuation and the space (the one whitespace character of the texts    *)
(* below).  Indices are JavaScript's, counted from 0; -1 is "not found".    *)

toLowerCaseChar(ch) ==
    LET capitals == "ABCDEFGHIJKLMNOPQRSTUVWXYZ"
        smalls == "abcdefghijklmnopqrstuvwxyz"
        at == { k \in 1..Len(capitals) : SubSeq(capitals, k, k) = ch }
    IN  IF at = {} THEN ch
        ELSE SubSeq(smalls, CHOOSE k \in at : TRUE, CHOOSE k \in at : TRUE)

\* character by character, the text taken in halves
RECURSIVE toLowerCase(_)
toLowerCase(text) ==
    IF text = "" THEN ""
    ELSE IF Len(text) = 1 THEN toLowerCaseChar(text)
    ELSE toLowerCase(SubSeq(text, 1, Len(text) \div 2))
            \o toLowerCase(SubSeq(text, Len(text) \div 2 + 1, Len(text)))

Least(indices) == CHOOSE i \in indices : \A j \in indices : i <= j

Greatest(indices) == CHOOSE i \in indices : \A j \in indices : j <= i

\* text.indexOf(pattern, from)
indexOf(text, pattern, from) ==
    LET hits == { i \in from..(Len(text) - Len(pattern)) :
                     SubSeq(text, i + 1, i + Len(pattern)) = pattern }
    IN  IF hits = {} THEN 0 - 1 ELSE Least(hits)

\* text.lastIndexOf(pattern, from)
lastIndexOf(text, pattern, from) ==
    LET hits == { i \in 0..from :
                     /\ i + Len(pattern) <= Len(text)
                     /\ SubSeq(text, i + 1, i + Len(pattern)) = pattern }
    IN  IF hits = {} THEN 0 - 1 ELSE Greatest(hits)

\* the index after the whitespace that starts at i
skipWhitespace(text, i) ==
    IF i >= Len(text) THEN i
    ELSE Least({ j \in i..Len(text) :
                    j = Len(text) \/ SubSeq(text, j + 1, j + 1) # " " })

\* new RegExp(name.replace(/\s+/g, '\\s*'), 'i') tried at index i: the index
\* after the match of the words with any whitespace between them, or -1
RECURSIVE matchEnd(_, _, _)
matchEnd(text, i, words) ==
    LET word == Head(words)
    IN  IF /\ i + Len(word) <= Len(text)
           /\ toLowerCase(SubSeq(text, i + 1, i + Len(word))) = toLowerCase(word)
        THEN IF Len(words) = 1 THEN i + Len(word)
             ELSE matchEnd(text, skipWhitespace(text, i + Len(word)), Tail(words))
        ELSE 0 - 1

\* text.match(regex): index and end of the leftmost match, index -1 if none
match(text, words) ==
    LET hits == { i \in 0..(Len(text) - 1) : matchEnd(text, i, words) # 0 - 1 }
    IN  IF hits = {} THEN [index |-> 0 - 1, end |-> 0 - 1]
        ELSE [index |-> Least(hits), end |-> matchEnd(text, Least(hits), words)]

\* text.replace(/\s+/g, ' ')
\* each run of whitespace becomes one space; the text is taken in halves and
\* a run that the cut divides is joined again
RECURSIVE normalizeWhitespace(_)
normalizeWhitespace(text) ==
    IF Len(text) <= 1 THEN text
    ELSE LET left == normalizeWhitespace(SubSeq(text, 1, Len(text) \div 2))
             right == normalizeWhitespace(SubSeq(text, Len(text) \div 2 + 1, Len(text)))
         IN  IF /\ SubSeq(left, Len(left), Len(left)) = " "
                /\ SubSeq(right, 1, 1) = " "
             THEN left \o SubSeq(right, 2, Len(right))
             ELSE left \o right

\* text.replace(/^\s*[:\-]\s*/, '')
removeLeadingColon(text) ==
    LET at == skipWhitespace(text, 0)
    IN  IF at < Len(text) /\ SubSeq(text, at + 1, at + 1) \in { ":", "-" }
        THEN SubSeq(text, skipWhitespace(text, at + 1) + 1, Len(text))
        ELSE text

\* sectionDefs of extractSections: the words of each header and of its end
\* markers
sectionDefs ==
    << [name |-> "Cash Flow Predictability",
        words |-> << "Cash", "Flow", "Predictability" >>,
        endMarkers |-> << << "Asset", "Coverage" >>, << "Collateral" >>,
                          << "Operational" >>, << "Risk", "Factors" >>,
                          << "Approval", "Recommendation" >> >>],
       [name |-> "Asset Coverage",
        words |-> << "Asset", "Coverage" >>,
        endMarkers |-> << << "Operational" >>, << "Risk", "Factors" >>,
                          << "Approval", "Recommendation" >>,
                          << "Cash", "Flow" >> >>],
       [name |-> "Operational Track Record",
        words |-> << "Operational", "Track", "Record" >>,
        endMarkers |-> << << "Risk", "Factors" >>,
                          << "Approval", "Recommendation" >>,
                          << "Prepared", "By" >> >>],
       [name |-> "Risk Factors and Mitigants",
        words |-> << "Risk", "Factors", "and", "Mitigants" >>,
        endMarkers |-> << << "Approval", "Recommendation" >>,
                          << "Prepared", "By" >>, << "Reviewed", "By" >> >>],
       [name |-> "Executive Summary",
        words |-> << "Executive", "Summary" >>,
        endMarkers |-> << << "Key", "Approval" >>, << "Cash", "Flow" >>,
                          << "Collateral" >>, << "Risk", "Factors" >> >>] >>

\* the end of a section: the nearest end marker more than 20 characters
\* after the header, each marker counted at its first occurrence, or the
\* end of the text
sectionEnd(text, startIndex, endMarkers) ==
    LET rest == substring(text, startIndex, Len(text))
        ends == { startIndex + match(rest, endMarkers[k]).index :
                     k \in { j \in 1..Len(endMarkers) :
                                match(rest, endMarkers[j]).index # 0 - 1 } }
        far == { e \in ends : e > startIndex + 20 }
    IN  Least(far \cup { Len(text) })

\* the cleaned content of one section, "" when the header is missing or the
\* content has 20 characters or less (sections.get gives undefined)
sectionContentOf(text, sectionDef) ==
    LET header == match(text, sectionDef.words)
        startIndex == header.end
        endIndex == sectionEnd(text, startIndex, sectionDef.endMarkers)
        content == trim(removeLeadingColon(normalizeWhitespace(
                      trim(substring(text, startIndex, endIndex)))))
    IN  IF header.index = 0 - 1 THEN ""
        ELSE IF Len(content) > 20 THEN content ELSE ""

extractSections(text) ==
    [name \in { sectionDefs[k].name : k \in 1..Len(sectionDefs) } |->
        LET k == CHOOSE k \in 1..Len(sectionDefs) : sectionDefs[k].name = name
        IN  sectionContentOf(text, sectionDefs[k])]

sectionMappings ==
    << [sectionName |-> "Cash Flow Predictability", title |-> "Cash Flow Predictability"],
       [sectionName |-> "Asset Coverage", title |-> "Asset Coverage / Collateral"],
       [sectionName |-> "Operational Track Record", title |-> "Operational Track Record"],
       [sectionName |-> "Risk Factors and Mitigants", title |-> "Risk Factors and Mitigants"] >>

fallbackPatterns ==
    << [keyword |-> "cash flow", title |-> "Cash Flow Analysis"],
       [keyword |-> "collateral", title |-> "Collateral Evaluation"],
       [keyword |-> "management", title |-> "Management Assessment"],
       [keyword |-> "operational", title |-> "Operational Assessment"],
       [keyword |-> "risk", title |-> "Risk Assessment"] >>

\* the sentence around the first occurrence of a keyword, "" without one
keywordContext(text, lowerText, keyword) ==
    LET keywordIndex == indexOf(lowerText, keyword, 0)
        lastStop == lastIndexOf(text, ".", keywordIndex)
        sentenceStart == IF lastStop + 1 > 0 THEN lastStop + 1 ELSE 0
        sentenceEnd == indexOf(text, ".", keywordIndex + Len(keyword))
        endIndex == IF sentenceEnd # 0 - 1 /\ sentenceEnd + 1 < keywordIndex + 300
                    THEN sentenceEnd + 1
                    ELSE keywordIndex + 300
    IN  IF keywordIndex = 0 - 1 THEN ""
        ELSE trim(substring(text, sentenceStart, endIndex))

\* titles, descriptions and source texts of the rationales mockExtractRationales
\* pushes, in order: from the sections, else from the keywords, else one
\* from the executive summary or the head of the text
extractedTexts(text) ==
    LET sections == extractSections(text)
        bySection ==
            Map(LAMBDA found :
                   [title |-> found.title,
                    description |-> DescriptionOf(found.content),
                    sourceText |-> found.content],
                Filter(LAMBDA found : Len(found.content) > 20,
                       Map(LAMBDA mapping :
                              [title |-> mapping.title,
                               content |-> sections[mapping.sectionName]],
                           sectionMappings)))
        lowerText == toLowerCase(text)
        byKeyword ==
            Map(LAMBDA found :
                   [title |-> found.title,
                    description |->
                        substring(found.context, 0, DESCRIPTION_CUT)
                           \o (IF Len(found.context) > DESCRIPTION_CUT
                               THEN "..." ELSE ""),
                    sourceText |-> found.context],
                Filter(LAMBDA found : Len(found.context) > 30,
                       Map(LAMBDA pattern :
                              [title |-> pattern.title,
                               context |-> keywordContext(text, lowerText,
                                                          pattern.keyword)],
                           fallbackPatterns)))
        execSummary == sections["Executive Summary"]
        content == IF execSummary # "" THEN execSummary
                   ELSE substring(text, 0, 500)
    IN  IF bySection # << >> THEN bySection
        ELSE IF byKeyword # << >> THEN byKeyword
        ELSE IF Len(trim(text)) > 0
        THEN << [title |-> "Approval Rationale",
                 description |-> DescriptionOf(content),
                 sourceText |-> content] >>
        ELSE << >>

\* what Math.random().toString(36).substr(2, 9) may give: any string of
\* base-36 digits, the same one twice included
RandomSuffixes == { "k3j9x2m1q", "a8f0z7c2w" }

\* rat-${Date.now()}-${suffix}, the time written in the clock's unit
generateId(t, suffix) == "rat-" \o ToString(t) \o "-" \o suffix

\* mockExtractRationales at time t, the k-th call of generateId drawing
\* randoms[k]
mockExtractRationales(text, t, randoms) ==
    LET found == extractedTexts(text)
    IN  [k \in 1..Len(found) |->
            [id |-> generateId(t, randoms[k]),
             title |-> found[k].title,
             description |-> found[k].description,
             extractedAt |-> t,
             sourceText |-> found[k].sourceText]]

-----------------------------------------------------------------------------
(* Evaluation of the pure services on enumerated arguments *)

\* offsets within a day: its first instant, the next one, the last one
CalcOffsets == { 0, 1, msPerDay - 1 }

\* a review date and a current date `days' whole days (and a bit) later
CalcInputs ==
    { [fn |-> "calculateStatus",
       lastReviewedDate |-> l,
       days |-> d,
       currentDate |-> l + d * msPerDay + off] :
         l \in { ClockStart, ClockStart - 1 }, d \in 0..MaxCalcDays,
         off \in CalcOffsets }

\* ids of the pending lists handed to rejectPendingRationale, and an id that
\* none of them holds
RejectIds == { "rat-x1", "rat-x2", "rat-x3" }

AbsentId == "rat-x9"

\* pending lists with pairwise distinct ids, and an id to reject
RejectInputs ==
    { [fn |-> "rejectPendingRationale",
       pendingList |-> Map(LAMBDA id : MkPending(id, ClockStart), ids),
       rationaleId |-> rejected] :
         ids \in { l \in UNION { [1..n -> RejectIds] : n \in 0..MaxRejectList } :
                     \A i, j \in 1..Len(l) : i # j => l[i] # l[j] },
         rejected \in RejectIds \cup { AbsentId } }

\* a review date up to MaxDaysApart days before or after the current date,
\* to the instant, an instant less and an instant more
DaysInputs ==
    { [fn |-> "getDaysSinceReview",
       lastReviewedDate |-> ClockStart + d * msPerDay + off,
       currentDate |-> ClockStart] :
         d \in (0 - MaxDaysApart)..MaxDaysApart, off \in { 0 - 1, 0, 1 } }

\* the dates a summary is generated for: the day the statuses were computed,
\* the day after, and a day sixty days before
SummaryDates ==
    { ClockStart, ClockStart + msPerDay, ClockStart - 60 * msPerDay }

\* lists of different demo rationales (one Fresh, one Review Due, one Stale
\* at ClockStart), in every order
SummaryLists ==
    LET pool == createDemoRationales(ClockStart)
        picks == { l \in UNION { [1..n -> 1..Len(pool)] : n \in 0..MaxSummaryList } :
                     \A i, j \in 1..Len(l) : i # j => l[i] # l[j] }
    IN  { Map(LAMBDA i : pool[i], l) : l \in picks }

SummaryInputs ==
    { [fn |-> "generateReviewSummary",
       rationales |-> l,
       loanId |-> createDemoLoan.id,
       currentDate |-> t] : l \in SummaryLists, t \in SummaryDates }

\* calendar dates of MaxAgeYears years: the first, the fifteenth, the
\* twenty-eighth and, where the month has one, the thirty-first
AgeDates ==
    { DateOf(c[1], c[2], c[3]) :
         c \in { ymd \in (2023..(2022 + MaxAgeYears)) \X (1..12) \X { 1, 15, 28, 31 } :
                   CivilFromDays(DaysFromCivil(ymd[1], ymd[2], ymd[3])).day = ymd[3] } }

\* an approval date at midnight or at noon, and a current date at midnight
AgeInputs ==
    { [fn |-> "calculateApprovalLogicAge",
       approvalDate |-> a + off,
       currentDate |-> c] :
         a \in AgeDates, off \in { 0, msPerDay \div 2 }, c \in AgeDates }

\* texts handed to mockExtractRationales: none, blank, a memo with two
\* section headers (one content short, one longer than the cut), the same
\* headers in capitals, a memo without headers that names two keywords, a
\* keyword in too short a sentence, a word, and a word behind 350 spaces
Spaces350 ==
    LET ten == "          "
        fifty == ten \o ten \o ten \o ten \o ten
    IN  fifty \o fifty \o fifty \o fifty \o fifty \o fifty \o fifty

SectionsMemo ==
    "Credit Memo Cash Flow Predictability: " \o ShortSectionContent
        \o " Asset Coverage - " \o LongSectionContent

CapitalsMemo ==
    "CASH  FLOW PREDICTABILITY " \o ShortSectionContent
        \o " ASSETCOVERAGE " \o LongSectionContent

KeywordsMemo ==
    "Approved by committee. The borrower has strong Cash Flow from long term contracts. "
        \o "A first lien on plant and equipment is the collateral for the facility."

ExtractTexts ==
    { "", "   ", SectionsMemo, CapitalsMemo, KeywordsMemo, "Risk is low.",
      "Approved.", Spaces350 \o "Approved." }

ExtractInputs ==
    { [fn |-> "mockExtractRationales", text |-> text, extractedAt |-> t] :
         text \in ExtractTexts, t \in { ClockStart, ClockStart + 1 } }

\* review times: long before the rationales were dated, at the clock, just
\* after it, and 91 days later
ReviewTimes ==
    { ClockStart - 200 * msPerDay, ClockStart, ClockStart + 1,
      ClockStart + 91 * msPerDay }

\* rationales of every status, with signals (the demo ones) and without (a
\* confirmed one), and a review time
ReviewInputs ==
    { [fn |-> "markRationaleAsReviewed",
       rationale |-> r,
       reviewTime |-> t] :
         r \in Elems(createDemoRationales(ClockStart))
                 \cup { confirmPendingRationale(MkPending("rat-x1", ClockStart),
                                                ClockStart) },
         t \in ReviewTimes }

InitFn ==
    /\ state = initialState
    /\ stateIsInitialObject = TRUE
    /\ storageError = NoError
    /\ isInitialized = FALSE
    /\ store = NoItem
    /\ storeAcceptsWrites = TRUE
    /\ extractionErrorMsg = NoError
    /\ inflight = 0
    /\ now = ClockStart
    /\ call \in CalcInputs \cup RejectInputs \cup ReviewInputs
                  \cup DaysInputs \cup SummaryInputs \cup AgeInputs
                  \cup ExtractInputs
    /\ ret = NoCall
    /\ editingState = NoEditing
    /\ editingId = NoEditingId
    /\ onEditUpdates = NoEditing
    /\ imports = << >>
    /\ mountStep = "none"

EvalCalculateStatus ==
    /\ call.fn = "calculateStatus"
    /\ ret = NoCall
    /\ ret' = [fn |-> "calculateStatus",
               value |-> calculateStatus(call.lastReviewedDate, call.currentDate)]
    /\ UNCHANGED << state, stateIsInitialObject, storageError, isInitialized,
                    store, storeAcceptsWrites, extractionErrorMsg, inflight,
                    now, call >>
    /\ UNCHANGED << modal, imports, mountStep >>

EvalRejectPendingRationale ==
    /\ call.fn = "rejectPendingRationale"
    /\ ret = NoCall
    /\ ret' = [fn |-> "rejectPendingRationale",
               value |-> rejectPendingRationale(call.pendingList, call.rationaleId)]
    /\ UNCHANGED << state, stateIsInitialObject, storageError, isInitialized,
                    store, storeAcceptsWrites, extractionErrorMsg, inflight,
                    now, call >>
    /\ UNCHANGED << modal, imports, mountStep >>

EvalMarkRationaleAsReviewed ==
    /\ call.fn = "markRationaleAsReviewed"
    /\ ret = NoCall
    /\ ret' = [fn |-> "markRationaleAsReviewed",
               value |-> markRationaleAsReviewed(call.rationale, call.reviewTime)]
    /\ UNCHANGED << state, stateIsInitialObject, storageError, isInitialized,
                    store, storeAcceptsWrites, extractionErrorMsg, inflight,
                    now, call >>
    /\ UNCHANGED << modal, imports, mountStep >>

FnFrame ==
    /\ UNCHANGED << state, stateIsInitialObject, storageError, isInitialized,
                    store, storeAcceptsWrites, extractionErrorMsg, inflight,
                    now, call >>
    /\ UNCHANGED << modal, imports, mountStep >>

EvalGetDaysSinceReview ==
    /\ call.fn = "getDaysSinceReview"
    /\ ret = NoCall
    /\ ret' = [fn |-> "getDaysSinceReview",
               value |-> getDaysSinceReview(call.lastReviewedDate, call.currentDate)]
    /\ FnFrame

EvalGenerateReviewSummary ==
    /\ call.fn = "generateReviewSummary"
    /\ ret = NoCall
    /\ ret' = [fn |-> "generateReviewSummary",
               value |-> generateReviewSummary(call.rationales, call.loanId,
                                               call.currentDate)]
    /\ FnFrame

EvalCalculateApprovalLogicAge ==
    /\ call.fn = "calculateApprovalLogicAge"
    /\ ret = NoCall
    /\ ret' = [fn |-> "calculateApprovalLogicAge",
               value |-> calculateApprovalLogicAge(call.approvalDate,
                                                   call.currentDate)]
    /\ FnFrame

EvalMockExtractRationales ==
    /\ call.fn = "mockExtractRationales"
    /\ ret = NoCall
    /\ LET pushed == Len(extractedTexts(call.text))
       IN  \E randoms \in [1..pushed -> RandomSuffixes] :
              ret' = [fn |-> "mockExtractRationales",
                      value |-> mockExtractRationales(call.text, call.extractedAt,
                                                      randoms)]
    /\ FnFrame

NextFn ==
    \/ EvalCalculateStatus
    \/ EvalRejectPendingRationale
    \/ EvalMarkRationaleAsReviewed
    \/ EvalGetDaysSinceReview
    \/ EvalGenerateReviewSummary
    \/ EvalCalculateApprovalLogicAge
    \/ EvalMockExtractRationales

SpecFn == InitFn /\ [][NextFn]_vars

-----------------------------------------------------------------------------
(* The ConfirmationModal: the pending rationales of state, each in view    *)
(* mode or, for the one editingId names, in edit mode.                     *)

\* what the user types into the title and the description input
TypedTitles == { "Covenant headroom, as revised by the analyst" }
TypedDescriptions == { "Revised after reading the credit memo again." }

\* LoanCockpit renders the modal for a state with pending rationales to show
ModalShown(s) == s.showConfirmation /\ Len(s.pendingRationales) > 0

\* LoanCockpit's handleEditRationale: it logs the updates, state is untouched
handleEditRationale(log, id, updates) == [log EXCEPT ![id] = updates]

\* the rationale handleConfirm passes to onConfirm
handleConfirmPayload(edits, rationale) ==
    IF edits[rationale.id] # NoEdits
    THEN [rationale EXCEPT
            !.title = substring(edits[rationale.id].title, 0, MAX_TITLE_LENGTH),
            !.description = substring(edits[rationale.id].description, 0,
                                      MAX_DESCRIPTION_LENGTH)]
    ELSE rationale

\* the modal keeps its local state while it stays mounted; unmounted, it
\* starts again from useState's initial values
ModalAfter(newState, edits, id, log) ==
    IF ModalShown(newState)
    THEN /\ editingState' = edits
         /\ editingId' = id
         /\ onEditUpdates' = log
    ELSE /\ editingState' = NoEditing
         /\ editingId' = NoEditingId
         /\ onEditUpdates' = NoEditing

\* a handler of the modal that only sets its local state
ModalLocal ==
    /\ isInitialized
    /\ ModalShown(state)
    /\ UNCHANGED << state, stateIsInitialObject, storageError, store >>
    /\ UNCHANGED << isInitialized, storeAcceptsWrites, extractionErrorMsg,
                    inflight, now, call, ret, imports, mountStep >>

\* a handler of the modal that ends in a dispatch
ModalDispatch(action) ==
    /\ isInitialized
    /\ ModalShown(state)
    /\ DispatchAndPersist(action)
    /\ ModalAfter(loanCockpitReducer(state, action, now),
                  editingState, editingId, onEditUpdates)
    /\ UNCHANGED << isInitialized, storeAcceptsWrites, extractionErrorMsg,
                    inflight, now, call, ret, imports, mountStep >>

\* the Edit button of a rationale in view mode
handleStartEdit ==
    \E rationale \in Elems(state.pendingRationales) :
       /\ editingId # rationale.id
       /\ ModalLocal
       /\ editingId' = rationale.id
       /\ editingState' = [editingState EXCEPT ![rationale.id] =
                              [title |-> rationale.title,
                               description |-> rationale.description]]
       /\ UNCHANGED onEditUpdates

\* onChange of the title input of the rationale in edit mode
ChangeTitle ==
    \E typed \in TypedTitles :
       /\ editingId \in Ids(state.pendingRationales)
       /\ ModalLocal
       /\ editingState' = [editingState EXCEPT ![editingId].title = typed]
       /\ UNCHANGED << editingId, onEditUpdates >>

\* onChange of the description input of the rationale in edit mode
ChangeDescription ==
    \E typed \in TypedDescriptions :
       /\ editingId \in Ids(state.pendingRationales)
       /\ ModalLocal
       /\ editingState' = [editingState EXCEPT ![editingId].description = typed]
       /\ UNCHANGED << editingId, onEditUpdates >>

\* the Save button of the rationale in edit mode
handleSaveEdit ==
    /\ editingId \in Ids(state.pendingRationales)
    /\ ModalLocal
    /\ onEditUpdates' =
          IF editingState[editingId] # NoEdits
          THEN handleEditRationale(onEditUpdates, editingId,
                  [title |-> substring(editingState[editingId].title, 0,
                                       MAX_TITLE_LENGTH),
                   description |-> substring(editingState[editingId].description,
                                             0, MAX_DESCRIPTION_LENGTH)])
          ELSE onEditUpdates
    /\ editingId' = NoEditingId
    /\ UNCHANGED editingState

\* the Cancel button of the rationale in edit mode
handleCancelEdit ==
    /\ editingId \in Ids(state.pendingRationales)
    /\ ModalLocal
    /\ editingId' = NoEditingId
    /\ UNCHANGED << editingState, onEditUpdates >>

\* the Confirm button of a rationale in view mode
handleConfirm ==
    \E rationale \in Elems(state.pendingRationales) :
       /\ editingId # rationale.id
       /\ Len(state.rationales) < MaxRationales
       /\ ModalDispatch([type |-> "CONFIRM_RATIONALE",
                         payload |-> handleConfirmPayload(editingState, rationale)])

\* the Reject button of a rationale in view mode
ModalReject ==
    \E rationale \in Elems(state.pendingRationales) :
       /\ editingId # rationale.id
       /\ ModalDispatch([type |-> "REJECT_RATIONALE", payload |-> rationale.id])

\* the Confirm All button of the footer
ModalConfirmAll ==
    /\ Len(state.rationales) + Len(state.pendingRationales) <= MaxRationales
    /\ ModalDispatch([type |-> "CONFIRM_ALL_RATIONALES", payload |-> Null])

\* Review Later, the close button and the backdrop
ModalClose ==
    ModalDispatch([type |-> "SET_SHOW_CONFIRMATION", payload |-> FALSE])

\* the backdrop of the modal covers the import section, and each import
\* draws new ids: an import is followed here while no modal is open
NextModal ==
    \/ Mount
    \/ Tick
    \/ (~ModalShown(state) /\ ImportStart)
    \/ (~ModalShown(state) /\ ImportSucceed)
    \/ handleStartEdit
    \/ ChangeTitle
    \/ ChangeDescription
    \/ handleSaveEdit
    \/ handleCancelEdit
    \/ handleConfirm
    \/ ModalReject
    \/ ModalConfirmAll
    \/ ModalClose

SpecModal == Init /\ [][NextModal]_vars

-----------------------------------------------------------------------------
(* Imports told apart: each call of handleFileImport awaits the extraction *)
(* of its own file, and the promises resolve in any order.                 *)

\* the files a user drops: two memos and a scan without text
ImportFiles == { "memo-a.pdf", "memo-b.pdf", "scan.pdf" }

\* what extractTextFromPdf and mockExtractRationales make of a file at t:
\* the pending rationales, none for the scan
FilePendingRationales(file, t) ==
    IF file = "memo-a.pdf" THEN << MkPending("rat-x1", t), MkPending("rat-x2", t) >>
    ELSE IF file = "memo-b.pdf" THEN << MkPending("rat-x2", t) >>
    ELSE << >>

\* the dispatch a call of handleFileImport ends in
ResolutionOf(file, t) ==
    IF FilePendingRationales(file, t) # << >>
    THEN StartExtractionAction(CHOOSE loan \in ExtractedLoans(t) : TRUE,
                               FilePendingRationales(file, t))
    ELSE [type |-> "SET_EXTRACTION_ERROR", payload |-> Null]

\* handleFileImport(file) up to its await
ImportFileStart ==
    \E file \in ImportFiles :
       /\ isInitialized
       /\ Len(imports) < MaxImports
       /\ DispatchAndPersist([type |-> "SET_EXTRACTING", payload |-> TRUE])
       /\ extractionErrorMsg' = NoError
       /\ inflight' = inflight + 1
       /\ imports' = Append(imports, [file |-> file, awaited |-> TRUE])
       /\ UNCHANGED << isInitialized, storeAcceptsWrites, now, call, ret,
                       mountStep, modal >>

\* the k-th call of handleFileImport after its await
ImportFileResolveOf(k) ==
    /\ isInitialized
    /\ imports[k].awaited
    /\ DispatchAndPersist(ResolutionOf(imports[k].file, now))
    /\ extractionErrorMsg' =
          IF FilePendingRationales(imports[k].file, now) # << >>
          THEN extractionErrorMsg
          ELSE NoTextMessage
    /\ inflight' = inflight - 1
    /\ imports' = [imports EXCEPT ![k].awaited = FALSE]
    /\ UNCHANGED << isInitialized, storeAcceptsWrites, now, call, ret,
                    mountStep, modal >>

ImportFileResolve == \E k \in 1..Len(imports) : ImportFileResolveOf(k)

NextImports ==
    \/ Mount
    \/ Tick
    \/ ImportFileStart
    \/ ImportFileResolve
    \/ ConfirmRationale
    \/ RejectRationale
    \/ ConfirmAllRationales

SpecImports == Init /\ [][NextImports]_vars

-----------------------------------------------------------------------------
(* The mount, effect by effect: the restore effect and the persist effect  *)
(* of the first render, which saw initialState and isInitialized = false,  *)
(* then the persist effect of the render that the restore effect queued.   *)

\* the persist effect goes past its first line whatever isInitialized is
persistEffectRunsAlways(initialized) == TRUE

\* if (!isInitialized) return;
persistEffectRuns(initialized) == initialized

\* the restore effect: dispatch and setIsInitialized(true) are queued for the
\* next render
MountRestoreEffect ==
    /\ ~isInitialized
    /\ mountStep = "none"
    /\ IF store = NoItem
       THEN UNCHANGED << state, stateIsInitialObject, store, storageError >>
       ELSE IF ~deserializeThrows(store)
       THEN /\ Dispatch([type |-> "RESTORE_STATE",
                         payload |-> deserializeState(store)])
            /\ UNCHANGED << store, storageError >>
       ELSE /\ UNCHANGED << state, stateIsInitialObject >>
            /\ store' = NoItem
            /\ storageError' = CorruptedMessage
    /\ mountStep' = "restored"
    /\ UNCHANGED isInitialized
    /\ UNCHANGED << storeAcceptsWrites, extractionErrorMsg, inflight, now,
                    call, ret, imports, modal >>

\* the persist effect of the first render
MountPersistEffect ==
    /\ mountStep = "restored"
    /\ IF persistEffectRuns(isInitialized)
       THEN Persist(TRUE, initialState, store, storageError)
       ELSE UNCHANGED << store, storageError >>
    /\ mountStep' = "both"
    /\ UNCHANGED << state, stateIsInitialObject, isInitialized >>
    /\ UNCHANGED << storeAcceptsWrites, extractionErrorMsg, inflight, now,
                    call, ret, imports, modal >>

\* the next render, with the restored state and isInitialized = true, and
\* its persist effect
MountRerender ==
    /\ mountStep = "both"
    /\ isInitialized' = TRUE
    /\ IF persistEffectRuns(TRUE)
       THEN Persist(TRUE, state, store, storageError)
       ELSE UNCHANGED << store, storageError >>
    /\ mountStep' = "none"
    /\ UNCHANGED << state, stateIsInitialObject >>
    /\ UNCHANGED << storeAcceptsWrites, extractionErrorMsg, inflight, now,
                    call, ret, imports, modal >>

NextMount ==
    \/ MountRestoreEffect
    \/ MountPersistEffect
    \/ MountRerender
    \/ Reload
    \/ Tick
    \/ LoadDemo
    \/ ImportStart
    \/ ImportSucceed
    \/ ImportFail
    \/ ConfirmAllRationales
    \/ MarkReviewed

SpecMount == Init /\ [][NextMount]_vars

-----------------------------------------------------------------------------
(* Properties *)

\* C1: in every reachable state and at every current time, each rationale of
\* state.rationales has status = calculateStatus(lastReviewedAt, now)
StatusMatchesClock ==
    \A i \in 1..Len(state.rationales) :
        state.rationales[i].status =
            calculateStatus(state.rationales[i].lastReviewedAt, now)

\* C2: for a current date d whole days after the review date, calculateStatus
\* is Fresh for 0 <= d <= 30, Review Due for 31 <= d <= 90, Stale for d > 90
StatusByWholeDays ==
    ret.fn = "calculateStatus" =>
        ret.value = IF call.days <= 30 THEN "Fresh"
                    ELSE IF call.days <= 90 THEN "Review Due"
                    ELSE "Stale"

\* C2 witness: the boundaries were evaluated: exactly 91 days is Stale
StaleAt91Days ==
    /\ ret.fn = "calculateStatus"
    /\ call.currentDate - call.lastReviewedDate = 91 * msPerDay
    /\ ret.value = "Stale"

\* C3 as stated: after ConfirmRationale or RejectRationale, showConfirmation is
\* true exactly when more than one pending rationale remains after the removal
ShowConfirmationCountsRemaining ==
    /\ \A pending \in ConfirmPayloads :
          LET after == ReduceConfirmRationale(state, pending, now)
          IN  after.showConfirmation = (Len(after.pendingRationales) > 1)
    /\ \A id \in ExtractIds :
          LET after == ReduceRejectRationale(state, id)
          IN  after.showConfirmation = (Len(after.pendingRationales) > 1)

\* C3 amended: after ConfirmRationale or RejectRationale, showConfirmation is
\* true exactly when there was more than one pending rationale before the
\* removal
ShowConfirmationCountsBefore ==
    /\ \A pending \in ConfirmPayloads :
          ReduceConfirmRationale(state, pending, now).showConfirmation =
              (Len(state.pendingRationales) > 1)
    /\ \A id \in ExtractIds :
          ReduceRejectRationale(state, id).showConfirmation =
              (Len(state.pendingRationales) > 1)

\* C3 witness: one of two extracted pending rationales was confirmed, one
\* remains, and the confirmation surface is open
OnePendingLeftOpen ==
    /\ state.dataSource = "extracted"
    /\ Len(state.rationales) = 1
    /\ Len(state.pendingRationales) = 1
    /\ state.rationales[1].id \notin Ids(state.pendingRationales)
    /\ state.showConfirmation

\* C4: when the restore effect restores a stored snapshot, every rationale of
\* the resulting state has status = calculateStatus(lastReviewedAt, load time)
RestoreRecomputesStatus ==
    [][(Mount /\ store # NoItem /\ ~deserializeThrows(store)) =>
           \A i \in 1..Len(state'.rationales) :
               state'.rationales[i].status =
                   calculateStatus(state'.rationales[i].lastReviewedAt, now')]_vars

\* C5: after clearState and its effects, the state is the initial state and
\* the store holds no snapshot under the storage key
ClearLeavesNoSnapshot ==
    [][ClearState => (state' = initialState /\ store' = NoItem)]_vars

\* C6: when the stored snapshot cannot be deserialized, after startup the
\* malformed snapshot is gone, the state is the initial state and storageError
\* is the corruption warning
CorruptionWarningSurfaced ==
    [][(Mount /\ store # NoItem /\ deserializeThrows(store)) =>
           /\ store' # store
           /\ state' = initialState
           /\ storageError' = CorruptedMessage]_vars

\* C7: after the initial load, while the store accepts writes, the stored
\* snapshot deserializes to the current state; the key is absent only after
\* clearState found the state already initial (no state change to persist)
StoredSnapshotIsCurrent ==
    (isInitialized /\ storeAcceptsWrites) =>
        IF store = NoItem
        THEN stateIsInitialObject /\ state = initialState
        ELSE /\ ~deserializeThrows(store)
             /\ deserializeState(store) = state

\* C7 witness: a changed state with rationales and pending rationales is the
\* one the store holds
StoredAfterChange ==
    /\ isInitialized
    /\ storeAcceptsWrites
    /\ store # NoItem
    /\ Len(state.rationales) > 0
    /\ Len(state.pendingRationales) > 0
    /\ deserializeState(store) = state

\* C8: deserializeState(serializeState(s)) = s for every state s
SerializeRoundTrip == deserializeState(serializeState(state)) = state

\* C8 witness: a state with a loan, rationales carrying signals and pending
\* rationales, whose dates are not at midnight
RoundTripOfFullState ==
    /\ state.loan # Null
    /\ Len(state.rationales) = 3
    /\ Len(state.rationales[3].contextualSignals) = 2
    /\ state.rationales[3].lastReviewedAt % msPerDay # 0
    /\ Len(state.pendingRationales) = 2
    /\ state.pendingRationales[1].extractedAt % msPerDay # 0
    /\ deserializeState(serializeState(state)) = state

\* C9: from any state, StartExtraction(loan, pendingList) yields loan = loan,
\* rationales empty, pendingRationales = pendingList, showConfirmation =
\* (pendingList non-empty), isExtracting = false, dataSource = extracted
StartExtractionResult ==
    \A loan \in ExtractedLoans(now) :
    \A pendingList \in PendingLists(now, MaxPending) :
       loanCockpitReducer(state, StartExtractionAction(loan, pendingList), now) =
           [loan |-> loan,
            rationales |-> << >>,
            pendingRationales |-> pendingList,
            isExtracting |-> FALSE,
            showConfirmation |-> (pendingList # << >>),
            dataSource |-> "extracted"]

\* C9 witness: an import resolved with two pending rationales
ExtractionStarted ==
    /\ state.dataSource = "extracted"
    /\ state.loan \in ExtractedLoans(now)
    /\ state.rationales = << >>
    /\ Len(state.pendingRationales) = 2
    /\ state.showConfirmation
    /\ ~state.isExtracting

\* C10: from any state, ExtractionError yields exactly the initial state; no
\* failed import leaves demo data in the state
ExtractionErrorResets ==
    [][(ImportFail \/ SetExtractionError) => state' = initialState]_vars

\* C10 witness: an import failed and left its message and the initial state
ImportFailed ==
    /\ extractionErrorMsg = NoRationalesMessage
    /\ inflight = 0
    /\ state = initialState

\* C11: confirming a pending rationale at time t yields a Rationale with the
\* pending rationale's id, title and description, createdAt = lastReviewedAt
\* = t, status Fresh and no contextual signals, and the reducer's
\* ConfirmRationale appends exactly that rationale at the end of rationales
ConfirmYieldsFreshRationale ==
    \A pending \in ConfirmPayloads :
        LET confirmed == confirmPendingRationale(pending, now)
        IN  /\ confirmed = [id |-> pending.id,
                            title |-> pending.title,
                            description |-> pending.description,
                            createdAt |-> now,
                            lastReviewedAt |-> now,
                            status |-> "Fresh",
                            contextualSignals |-> << >>]
            /\ ReduceConfirmRationale(state, pending, now).rationales =
                   Append(state.rationales, confirmed)

\* C11 witness: a pending rationale extracted earlier was confirmed after a
\* rationale confirmed before, and is the last of the rationales
ConfirmedLaterThanExtracted ==
    /\ Len(state.rationales) = 2
    /\ state.rationales[2].id \in ExtractIds
    /\ state.rationales[2].createdAt = now
    /\ state.rationales[2].lastReviewedAt = now
    /\ state.rationales[2].status = "Fresh"
    /\ state.rationales[1].createdAt < now
    /\ state.pendingRationales = << >>
    /\ state.dataSource = "extracted"

\* C12: ConfirmAllRationales appends one confirmed rationale per pending
\* rationale, in the pending list's order and after the rationales confirmed
\* before, each with createdAt = lastReviewedAt = the one confirm time and
\* status Fresh; afterwards pendingRationales is empty and showConfirmation
\* is false
ConfirmAllAppendsInOrder ==
    LET after == ReduceConfirmAllRationales(state, now)
        n == Len(state.rationales)
        m == Len(state.pendingRationales)
    IN  /\ Len(after.rationales) = n + m
        /\ \A i \in 1..n : after.rationales[i] = state.rationales[i]
        /\ \A j \in 1..m :
              after.rationales[n + j] =
                  [id |-> state.pendingRationales[j].id,
                   title |-> state.pendingRationales[j].title,
                   description |-> state.pendingRationales[j].description,
                   createdAt |-> now,
                   lastReviewedAt |-> now,
                   status |-> "Fresh",
                   contextualSignals |-> << >>]
        /\ SubSeq(after.rationales, n + 1, n + m) =
               confirmAllPendingRationales(state.pendingRationales, now)
        /\ after.pendingRationales = << >>
        /\ ~after.showConfirmation

\* C12 witness: two pending rationales were confirmed at one time, after the
\* clock advanced, in the order of the pending list
TwoConfirmedAtOnce ==
    /\ Len(state.rationales) = 2
    /\ state.rationales[1].id = "rat-x2"
    /\ state.rationales[2].id = "rat-x1"
    /\ now > ClockStart
    /\ state.rationales[1].createdAt = now
    /\ state.rationales[2].createdAt = now
    /\ state.pendingRationales = << >>
    /\ ~state.showConfirmation
    /\ state.dataSource = "extracted"

ReviewStampsAndKeepsTheRest ==
    ret.fn = "markRationaleAsReviewed" =>
        /\ DOMAIN ret.value = DOMAIN call.rationale
        /\ ret.value.lastReviewedAt = call.reviewTime
        /\ ret.value.status = "Fresh"
        /\ ret.value.id = call.rationale.id
        /\ ret.value.title = call.rationale.title
        /\ ret.value.description = call.rationale.description
        /\ ret.value.createdAt = call.rationale.createdAt
        /\ ret.value.contextualSignals = call.rationale.contextualSignals

\* C14 witness: a Stale rationale with signals was reviewed and is Fresh
StaleReviewedIsFresh ==
    /\ ret.fn = "markRationaleAsReviewed"
    /\ call.rationale.status = "Stale"
    /\ call.rationale.contextualSignals # << >>
    /\ call.reviewTime > call.rationale.lastReviewedAt
    /\ ret.value.status = "Fresh"
    /\ ret.value.lastReviewedAt = call.reviewTime

\* C15: the reducer's MarkReviewed(id) changes only the rationales whose id
\* matches: the other rationales, the order and length of rationales, and
\* loan, pendingRationales, isExtracting, showConfirmation and dataSource
\* are unchanged; with no rationale of that id the state is unchanged
MarkReviewedTouchesOnlyMatch ==
    \A id \in Ids(state.rationales) \cup ExtractIds \cup { AbsentId } :
        LET after == ReduceMarkReviewed(state, id, now)
        IN  /\ Len(after.rationales) = Len(state.rationales)
            /\ \A i \in 1..Len(state.rationales) :
                  /\ after.rationales[i].id = state.rationales[i].id
                  /\ state.rationales[i].id # id =>
                         after.rationales[i] = state.rationales[i]
            /\ after.loan = state.loan
            /\ after.pendingRationales = state.pendingRationales
            /\ after.isExtracting = state.isExtracting
            /\ after.showConfirmation = state.showConfirmation
            /\ after.dataSource = state.dataSource
            /\ id \notin Ids(state.rationales) => after = state

\* C15 witness: of the demo rationales, dated at the load, the second one
\* alone was reviewed later, while a pending rationale was waiting
SecondDemoRationaleReviewed ==
    /\ state.dataSource = "demo"
    /\ Len(state.rationales) = 3
    /\ now > ClockStart
    /\ state.rationales[2].lastReviewedAt = now
    /\ state.rationales[2].status = "Fresh"
    /\ state.rationales[1] = createDemoRationales(ClockStart)[1]
    /\ state.rationales[3] = createDemoRationales(ClockStart)[3]
    /\ state.pendingRationales # << >>

\* C16: from any state, LoadDemo yields exactly 3 rationales, with Fresh,
\* Review Due and Stale each present once and 1 or 2 contextual signals on
\* each, pendingRationales empty, showConfirmation false, dataSource demo
LoadDemoYieldsThreeStatuses ==
    LET after == ReduceLoadDemoData(state, now)
    IN  /\ Len(after.rationales) = 3
        /\ \A status \in { "Fresh", "Review Due", "Stale" } :
              Cardinality({ i \in 1..3 : after.rationales[i].status = status }) = 1
        /\ \A i \in 1..3 : Len(after.rationales[i].contextualSignals) \in 1..2
        /\ after.pendingRationales = << >>
        /\ ~after.showConfirmation
        /\ after.dataSource = "demo"

\* C16 witness: the demo data was loaded, after the clock advanced, while an
\* import was being extracted
DemoLoadedDuringImport ==
    /\ state.dataSource = "demo"
    /\ now > ClockStart
    /\ state.rationales = createDemoRationales(now)
    /\ state.loan = createDemoLoan
    /\ state.pendingRationales = << >>
    /\ state.isExtracting
    /\ inflight > 0

\* C17: LoadDemo, then MarkReviewed of the Stale demo rationale at now, then
\* the summary at now: the reviewed rationale is Fresh, the other two are
\* unchanged, and rationalesNeedingReview no longer holds the previously
\* Stale rationale but still holds the Review Due one
DemoReviewThenSummary ==
    \A loadTime \in { ClockStart, now } :
        LET loaded == ReduceLoadDemoData(state, loadTime)
            k == CHOOSE i \in 1..Len(loaded.rationales) :
                     loaded.rationales[i].status = "Stale"
            due == CHOOSE i \in 1..Len(loaded.rationales) :
                       loaded.rationales[i].status = "Review Due"
            reviewed == ReduceMarkReviewed(loaded, loaded.rationales[k].id, now)
            summary == generateReviewSummary(reviewed.rationales,
                                             reviewed.loan.id, now)
            listed == { summary.rationalesNeedingReview[i].title :
                          i \in 1..Len(summary.rationalesNeedingReview) }
        IN  /\ reviewed.rationales[k].status = "Fresh"
            /\ \A i \in 1..Len(loaded.rationales) :
                  i # k => reviewed.rationales[i] = loaded.rationales[i]
            /\ loaded.rationales[k].title \notin listed
            /\ loaded.rationales[due].title \in listed

\* C17 witness: the demo data was loaded and its Stale rationale reviewed at
\* the same time, so that the summary lists the Review Due rationale alone
StaleDemoRationaleReviewed ==
    /\ state.dataSource = "demo"
    /\ Len(state.rationales) = 3
    /\ state.rationales[1] = createDemoRationales(now)[1]
    /\ state.rationales[2] = createDemoRationales(now)[2]
    /\ state.rationales[3].lastReviewedAt = now
    /\ state.rationales[3].status = "Fresh"
    /\ generateReviewSummary(state.rationales, state.loan.id, now)
           .rationalesNeedingReview =
         << [title |-> "Collateral Valuation Basis",
             status |-> "Review Due",
             daysSinceReview |-> 45] >>

\* C18: in every reachable state, showConfirmation implies that
\* pendingRationales is non-empty
ShowConfirmationHasPending ==
    state.showConfirmation => state.pendingRationales # << >>

\* C19: in every reachable state, also after a snapshot was restored and
\* after a failed import, isExtracting implies that an extraction started by
\* an import is outstanding
ExtractingHasImportInFlight ==
    state.isExtracting => inflight > 0

\* C20: every rationale of state.rationales has a title of at most 100
\* characters and a description of at most 250 characters
TitleAndDescriptionWithinLimits ==
    \A i \in 1..Len(state.rationales) :
        /\ Len(state.rationales[i].title) <= MAX_TITLE_LENGTH
        /\ Len(state.rationales[i].description) <= MAX_DESCRIPTION_LENGTH

\* C21: a pending rationale whose edit was saved is confirmed with the saved
\* title and description, by its own Confirm button and by Confirm All alike
SavedEditIsConfirmed ==
    (isInitialized /\ ModalShown(state)) =>
       \A i \in 1..Len(state.pendingRationales) :
          LET p == state.pendingRationales[i]
              saved == onEditUpdates[p.id]
              one == ReduceConfirmRationale(
                        state, handleConfirmPayload(editingState, p), now).rationales
              all == ReduceConfirmAllRationales(state, now).rationales
              byOne == one[Len(one)]
              byAll == all[Len(state.rationales) + i]
          IN  (saved # NoEdits /\ editingId # p.id) =>
                 /\ byOne.title = saved.title
                 /\ byOne.description = saved.description
                 /\ byAll.title = saved.title
                 /\ byAll.description = saved.description

\* C30: once the edit of a pending rationale that was never saved is
\* cancelled, its Confirm button passes on the rationale as it was extracted
CancelledEditIsDropped ==
    [][(handleCancelEdit /\ onEditUpdates[editingId] = NoEdits) =>
          \A p \in Elems(state.pendingRationales) :
             p.id = editingId =>
                /\ handleConfirmPayload(editingState', p).title = p.title
                /\ handleConfirmPayload(editingState', p).description = p.description
      ]_vars

\* C22: getDaysSinceReview never returns a negative number, and no entry of
\* a generated summary has a negative daysSinceReview
DaysSinceReviewNonNegative ==
    /\ ret.fn = "getDaysSinceReview" => ret.value >= 0
    /\ ret.fn = "generateReviewSummary" =>
          \A i \in 1..Len(ret.value.rationalesNeedingReview) :
             ret.value.rationalesNeedingReview[i].daysSinceReview >= 0

\* C23: the approval logic age is max(0, months by year and month, less one
\* when the current day of the month is before the approval's); it is never
\* negative, it is 0 for the approval date itself and for an approval date
\* still to come, and one calendar month later on the same day (up to the
\* 28th) it is one more, for an approval date that is not still to come
ApprovalLogicAgeInWholeMonths ==
    ret.fn = "calculateApprovalLogicAge" =>
       LET approval == CivilFromDays(call.approvalDate \div msPerDay)
           current == CivilFromDays(call.currentDate \div msPerDay)
           c == IF current.day < approval.day THEN 1 ELSE 0
           byMonths == (current.year - approval.year) * 12
                          + (current.month - approval.month) - c
           later == DateOf(IF current.month = 12 THEN current.year + 1
                                                 ELSE current.year,
                           IF current.month = 12 THEN 1 ELSE current.month + 1,
                           current.day) + (call.currentDate % msPerDay)
       IN  /\ ret.value = IF byMonths > 0 THEN byMonths ELSE 0
           /\ ret.value \in Nat
           /\ call.currentDate <= call.approvalDate => ret.value = 0
           /\ (current.day <= 28 /\ call.approvalDate <= call.currentDate) =>
                 calculateApprovalLogicAge(call.approvalDate, later) = ret.value + 1

\* C23, as stated: one calendar month later on the same day (up to the 28th)
\* the age is one more, whatever the approval date
ApprovalLogicAgeGrowsEachMonth ==
    ret.fn = "calculateApprovalLogicAge" =>
       LET approval == CivilFromDays(call.approvalDate \div msPerDay)
           current == CivilFromDays(call.currentDate \div msPerDay)
           c == IF current.day < approval.day THEN 1 ELSE 0
           byMonths == (current.year - approval.year) * 12
                          + (current.month - approval.month) - c
           later == DateOf(IF current.month = 12 THEN current.year + 1
                                                 ELSE current.year,
                           IF current.month = 12 THEN 1 ELSE current.month + 1,
                           current.day) + (call.currentDate % msPerDay)
       IN  /\ ret.value = IF byMonths > 0 THEN byMonths ELSE 0
           /\ ret.value \in Nat
           /\ call.currentDate <= call.approvalDate => ret.value = 0
           /\ current.day <= 28 =>
                 calculateApprovalLogicAge(call.approvalDate, later) = ret.value + 1

\* an approval on the 28th aged on the 15th, eleven months and some days on
AgedBeforeTheApprovalDay ==
    /\ ret.fn = "calculateApprovalLogicAge"
    /\ CivilFromDays(call.approvalDate \div msPerDay) = [year |-> 2023, month |-> 2, day |-> 28]
    /\ CivilFromDays(call.currentDate \div msPerDay) = [year |-> 2024, month |-> 2, day |-> 15]
    /\ ret.value = 11

\* C24: the summary lists the Review Due and the Stale rationales of its
\* input, each once with its title and status, and no Fresh one
SummaryListsThoseNeedingReview ==
    ret.fn = "generateReviewSummary" =>
       LET input == call.rationales
           listed == ret.value.rationalesNeedingReview
           due == { i \in 1..Len(input) :
                      input[i].status \in { "Review Due", "Stale" } }
           nth(k) == CHOOSE i \in due :
                        Cardinality({ j \in due : j <= i }) = k
       IN  /\ Len(listed) = Cardinality(due)
           /\ \A k \in 1..Len(listed) :
                 /\ listed[k].title = input[nth(k)].title
                 /\ listed[k].status = input[nth(k)].status
                 /\ listed[k].status # "Fresh"

\* a summary of the three demo rationales, two of them listed
SummaryOfAllThreeStatuses ==
    /\ ret.fn = "generateReviewSummary"
    /\ { call.rationales[i].status : i \in 1..Len(call.rationales) }
          = { "Fresh", "Review Due", "Stale" }
    /\ Len(ret.value.rationalesNeedingReview) = 2

\* C25: the entries of rationalesNeedingReview come most stale first
SummaryMostStaleFirst ==
    ret.fn = "generateReviewSummary" =>
       LET listed == ret.value.rationalesNeedingReview
       IN  \A k \in 1..(Len(listed) - 1) :
              listed[k].daysSinceReview >= listed[k + 1].daysSinceReview

\* C26: the empty text yields no pending rationale, and every pending
\* rationale of one call has a title, a description, and an id of its own
ExtractedRationalesWellFormed ==
    ret.fn = "mockExtractRationales" =>
       /\ call.text = "" => ret.value = << >>
       /\ \A i \in 1..Len(ret.value) :
             /\ ret.value[i].title # ""
             /\ ret.value[i].description # ""
             /\ \A j \in 1..Len(ret.value) :
                   i # j => ret.value[i].id # ret.value[j].id

\* C27: once the import begun last has resolved, the resolution of an import
\* begun before it, success or failure, leaves the loan, the pending
\* rationales and the confirmed rationales as they are
LateResolutionIsDiscarded ==
    \A k \in 1..(Len(imports) - 1) :
       (isInitialized /\ imports[k].awaited /\ ~imports[Len(imports)].awaited) =>
          LET after == loanCockpitReducer(state, ResolutionOf(imports[k].file, now), now)
          IN  /\ after.loan = state.loan
              /\ after.pendingRationales = state.pendingRationales
              /\ after.rationales = state.rationales

\* C28: no two confirmed rationales share an id
RationaleIdsUnique ==
    \A i, j \in 1..Len(state.rationales) :
       i # j => state.rationales[i].id # state.rationales[j].id

\* C29: in a mount that finds a valid snapshot, neither effect of the first
\* render writes to the store, and the first write, made by the next render,
\* is the serialized state restored from that snapshot
RestoreComesBeforePersist ==
    [][(store # NoItem /\ ~deserializeThrows(store)) =>
          /\ MountRestoreEffect =>
                /\ store' = store
                /\ state' = ReduceRestoreState(state, deserializeState(store))
          /\ MountPersistEffect => store' = store
          /\ (MountRerender /\ storeAcceptsWrites) =>
                /\ state = ReduceRestoreState(initialState, deserializeState(store))
                /\ store' = serializeState(state)
      ]_vars

\* both effects of the first render have run over a snapshot with
\* rationales: the state is restored and the store still holds the snapshot
SnapshotRestoredAndUntouched ==
    /\ mountStep = "both"
    /\ ~isInitialized
    /\ store # NoItem
    /\ state.rationales # << >>
    /\ state = ReduceRestoreState(initialState, deserializeState(store))

====
